---- MODULE Spec2Model ----
(***************************************************************************)
(* pubtools-executors: the retry wrapper (helpers.py), the executor        *)
(* bearers (Local, Remote, Container) and the skopeo command set.          *)
(***************************************************************************)
EXTENDS Integers, Sequences, FiniteSets, TLC

(***************************************************************************)
(* Bounds of the model.                                                    *)
(***************************************************************************)
MaxTries == 5
MaxWaitIncrease == 70
MaxCalls == 2
MaxScopes == 2
MaxDests == 2

(***************************************************************************)
(* helpers.py                                                              *)
(***************************************************************************)
MAX_RETRY_WAIT == 120

VARIABLES
  tries,               \* run_with_retries: argument tries
  wait_time_increase,  \* run_with_retries: argument wait_time_increase
  i,                   \* run_with_retries: loop index of `for i in range(tries)`
  wait_time,           \* run_with_retries: local wait_time
  rpc,                 \* run_with_retries: "loop", "returned" or "raised"
  result,              \* value run_with_retries returned to its caller
  raised,              \* exception that reached the caller of run_with_retries
  invocations,         \* outcome of every call of function(), in order
  events               \* calls, log records and sleeps, in order

retryVars == <<tries, wait_time_increase, i, wait_time, rpc, result, raised,
               invocations, events>>

VARIABLES
  variant,               \* which bearer class: "Local", "Remote", "Container"
  accept_unknown_host,   \* RemoteExecutorBearer: constructor argument
  missing_host_policy,   \* RemoteExecutorBearer.missing_host_policy
  bpc,                   \* scope position: "constructed", "entered", "exited", "failed"
  container,             \* ContainerExecutorBearer: recorded container id (0: none)
  created,               \* container runtime: number of containers created so far
  live,                  \* container runtime: ids of the containers that exist
  removeCalls,           \* container runtime: ids remove_container was issued for
  calls,                 \* every _run_cmd / _add_file issued on the bearer, in order
  pending,               \* failure raised by the last call or the body, in flight
  propagated,            \* failures that left the scope (or reached the caller)
  scopes                 \* number of scopes entered so far

bearerVars == <<variant, accept_unknown_host, missing_host_policy, bpc,
                container, created, live, removeCalls, calls, pending,
                propagated, scopes>>

VARIABLES
  username,   \* skopeo_login: argument username
  password,   \* skopeo_login: argument password
  lpc,        \* skopeo_login: position ("start", "checked", "staged", "ran",
              \* "returned", "raised")
  lout,       \* skopeo_login: (out, err) of the last _run_cmd
  lraised,    \* skopeo_login: the failure that left it ("none" if none)
  lmessage,   \* skopeo_login: the message of the exception it raised itself
  llog        \* skopeo_login: LOG.info records, in order

loginVars == <<username, password, lpc, lout, lraised, lmessage, llog>>

VARIABLES
  image_ref,  \* skopeo_inspect: argument image_ref
  raw,        \* skopeo_inspect: argument raw
  ipc,        \* skopeo_inspect: position ("start", "ran", "returned", "raised")
  iout,       \* skopeo_inspect: out of its _run_cmd
  iresult,    \* skopeo_inspect: the value returned
  iraised     \* skopeo_inspect: the failure that left it ("none" if none)

inspectVars == <<image_ref, raw, ipc, iout, iresult, iraised>>

VARIABLES
  source_ref, \* tag_images: argument source_ref
  dest_refs,  \* tag_images: argument dest_refs
  all_arch,   \* tag_images: argument all_arch
  d,          \* tag_images: index in dest_refs of the destination copied next
  tlog        \* tag_images: LOG.info records and copy commands, in order

tagVars == <<source_ref, dest_refs, all_arch, d, tlog>>

VARIABLES
  dtries,     \* retry: the decorator's argument tries
  dwait,      \* retry: the decorator's argument wait_time_increase
  wargs,      \* wrapper_func: the arguments of the call
  bound,      \* wrapper_func: the arguments held by the partial
  received,   \* the arguments func received, one entry per invocation
  wpc,        \* wrapper_func: position
  wresult,    \* wrapper_func: the value returned
  wraised     \* wrapper_func: the failure that left it

decoVars == <<dtries, dwait, wargs, bound, received, wpc, wresult, wraised>>

vars == <<retryVars, bearerVars, loginVars, inspectVars, tagVars, decoVars>>

\* No exception / no value yet.
NoExc == [cls |-> "none", id |-> 0]
Unset == "Unset"

\* Values the retried operation may return (Python None among them).
Results == {"None", "Success"}

\* The exception object raised by invocation number n: every raise makes a
\* new object, told apart by the invocation that raised it. Its class is
\* "Exception" (or a subclass) or "BaseException" (KeyboardInterrupt,
\* SystemExit: outside Exception).
ExcOf(cls, n) == [cls |-> cls, id |-> n]

Returned(v) == [kind |-> "ret", val |-> v, exc |-> NoExc]
Raised(e) == [kind |-> "exc", val |-> Unset, exc |-> e]

Event(ev, n, try, of) == [ev |-> ev, n |-> n, try |-> try, of |-> of]
CallEv(n) == Event("call", n, 0, 0)
InfoEv(try, of) == Event("info", 0, try, of)
WarningEv(secs, try, of) == Event("warning", secs, try, of)
SleepEv(secs) == Event("sleep", secs, 0, 0)
ErrorEv == Event("error", 0, 0, 0)

\* helpers.py:34  `if i < tries - 1`
ShouldRetry_Always(idx, n) == idx < n
ShouldRetry_GivesUpEarly(idx, n) == idx < n - 2
ShouldRetry(idx, n) == idx < n - 1

\* helpers.py:35  the wait before the next attempt
NextWaitTime_Counter(idx, inc, prev) ==
  IF prev < MAX_RETRY_WAIT THEN (idx + 1) * inc ELSE MAX_RETRY_WAIT
NextWaitTime_CapsCurrent(idx, inc, prev) ==
  IF idx * inc < MAX_RETRY_WAIT THEN idx * inc ELSE MAX_RETRY_WAIT
NextWaitTime(idx, inc, prev) ==
  IF prev < MAX_RETRY_WAIT THEN idx * inc ELSE MAX_RETRY_WAIT

\* helpers.py:30-31  the info record logged when success follows a failure
SuccessLog_Always(idx, n) == <<InfoEv(idx + 1, n)>>
SuccessLog(idx, n) == IF idx # 0 THEN <<InfoEv(idx + 1, n)>> ELSE <<>>

\* helpers.py:43  bare `raise` re-raises the exception being handled
Reraise_First(e, hist) ==
  IF Len(hist) > 0 /\ hist[1].kind = "exc" THEN hist[1].exc ELSE e
Reraise(e, hist) == e

\* helpers.py:9  tries is any integer: the least one tried is negative
MinTries == 0 - 1

\* run_with_retries has not been called.
RetryIdle ==
  /\ tries = 0
  /\ wait_time_increase = 0
  /\ i = 0
  /\ wait_time = 0
  /\ rpc = "idle"
  /\ result = Unset
  /\ raised = NoExc
  /\ invocations = <<>>
  /\ events = <<>>

RetryStart ==
  /\ tries \in MinTries..MaxTries
  /\ wait_time_increase \in 0..MaxWaitIncrease
  /\ i = 0
  /\ wait_time = 0
  /\ rpc = "loop"
  /\ result = Unset
  /\ raised = NoExc
  /\ invocations = <<>>
  /\ events = <<>>

\* helpers.py:28-32  function() returns v: log if a retry, return the value
FunctionReturns(v) ==
  /\ rpc = "loop"
  /\ i < tries
  /\ invocations' = Append(invocations, Returned(v))
  /\ result' = v
  /\ events' = events \o <<CallEv(Len(invocations) + 1)>> \o SuccessLog(i, tries)
  /\ rpc' = "returned"
  /\ UNCHANGED <<tries, wait_time_increase, i, wait_time, raised>>

\* helpers.py:33-41  function() raises an Exception and tries remain:
\* compute the wait, warn, sleep, continue with the next index
FunctionRaisesRetry ==
  /\ rpc = "loop"
  /\ i < tries
  /\ ShouldRetry(i, tries)
  /\ invocations' =
       Append(invocations, Raised(ExcOf("Exception", Len(invocations) + 1)))
  /\ wait_time' = NextWaitTime(i, wait_time_increase, wait_time)
  /\ events' = events \o <<CallEv(Len(invocations) + 1),
                           WarningEv(wait_time', i + 1, tries),
                           SleepEv(wait_time')>>
  /\ i' = i + 1
  /\ UNCHANGED <<tries, wait_time_increase, rpc, result, raised>>

\* helpers.py:33-34,42-43  function() raises an Exception on the last try:
\* log the error and re-raise
FunctionRaisesLast ==
  /\ rpc = "loop"
  /\ i < tries
  /\ ~ShouldRetry(i, tries)
  /\ LET e == ExcOf("Exception", Len(invocations) + 1) IN
       /\ invocations' = Append(invocations, Raised(e))
       /\ raised' = Reraise(e, invocations)
  /\ events' = events \o <<CallEv(Len(invocations) + 1), ErrorEv>>
  /\ rpc' = "raised"
  /\ UNCHANGED <<tries, wait_time_increase, i, wait_time, result>>

FunctionRaisesBase_Absorbed ==
  /\ rpc = "loop"
  /\ i < tries
  /\ ShouldRetry(i, tries)
  /\ invocations' =
       Append(invocations, Raised(ExcOf("BaseException", Len(invocations) + 1)))
  /\ wait_time' = NextWaitTime(i, wait_time_increase, wait_time)
  /\ events' = events \o <<CallEv(Len(invocations) + 1),
                           WarningEv(wait_time', i + 1, tries),
                           SleepEv(wait_time')>>
  /\ i' = i + 1
  /\ UNCHANGED <<tries, wait_time_increase, rpc, result, raised>>

\* helpers.py:28-33  function() raises a failure that `except Exception`
\* does not catch: it leaves run_with_retries at once
FunctionRaisesBase ==
  /\ rpc = "loop"
  /\ i < tries
  /\ LET e == ExcOf("BaseException", Len(invocations) + 1) IN
       /\ invocations' = Append(invocations, Raised(e))
       /\ raised' = e
  /\ events' = events \o <<CallEv(Len(invocations) + 1)>>
  /\ rpc' = "raised"
  /\ UNCHANGED <<tries, wait_time_increase, i, wait_time, result>>

\* run_with_retries around an operation that returns or raises in one step.
InvokeReturns ==
  /\ \E v \in Results : FunctionReturns(v)
  /\ UNCHANGED <<bearerVars, loginVars, inspectVars, tagVars, decoVars>>

InvokeRaisesRetry ==
  /\ FunctionRaisesRetry
  /\ UNCHANGED <<bearerVars, loginVars, inspectVars, tagVars, decoVars>>

InvokeRaisesLast ==
  /\ FunctionRaisesLast
  /\ UNCHANGED <<bearerVars, loginVars, inspectVars, tagVars, decoVars>>

InvokeRaisesBase ==
  /\ FunctionRaisesBase
  /\ UNCHANGED <<bearerVars, loginVars, inspectVars, tagVars, decoVars>>

LoopExhausted_Raises ==
  /\ rpc = "loop"
  /\ i >= tries
  /\ raised' = ExcOf("Exception", 0)
  /\ rpc' = "raised"
  /\ UNCHANGED <<bearerVars, loginVars, inspectVars, tagVars, decoVars>>
  /\ UNCHANGED <<tries, wait_time_increase, i, wait_time, result,
                 invocations, events>>

\* helpers.py:27  range(tries) is exhausted (tries <= 0): the function falls
\* off its end and returns None
LoopExhausted ==
  /\ rpc = "loop"
  /\ i >= tries
  /\ result' = "None"
  /\ rpc' = "returned"
  /\ UNCHANGED <<bearerVars, loginVars, inspectVars, tagVars, decoVars>>
  /\ UNCHANGED <<tries, wait_time_increase, i, wait_time, raised,
                 invocations, events>>

RetryNext ==
  \/ InvokeReturns
  \/ InvokeRaisesRetry
  \/ InvokeRaisesLast
  \/ InvokeRaisesBase
  \/ LoopExhausted


(***************************************************************************)
(* Executor bearers (pubtools/_executors): LocalExecutorBearer,            *)
(* RemoteExecutorBearer, ContainerExecutorBearer.                          *)
(***************************************************************************)
Variants == {"Local", "Remote", "Container"}

\* Text is a sequence of symbols; `a in b` of Python is contiguous occurrence.
EmptyText == <<>>
Contains(needle, hay) ==
  \E k \in 0..(Len(hay) - Len(needle)) :
    \A j \in 1..Len(needle) : hay[k + j] = needle[j]

\* What a backend hands back for one stream: text (local pipes in text
\* mode), bytes (ssh channel, container exec) or nothing at all.
AsText(t) == [form |-> "text", data |-> t]
AsBytes(t) == [form |-> "bytes", data |-> t]
\* Python None where a text is expected, kept apart from the empty text.
Null == <<"None">>
Absent == [form |-> "none", data |-> Null]

\* bytes.decode("utf-8")
Decode(b) == b.data

\* Exit status values a command may complete with.
Statuses == {0 - 1, 0, 1}

OutTexts == {EmptyText, <<"outlog">>}
ErrTexts == {<<"errlog">>}

\* The raw capture of one command, per backend: two pipes, two channel
\* streams, or the single merged stream of an exec session (possibly none).
CapturesOf(v, outs, errs) ==
  IF v = "Local"
    THEN {[out |-> AsText(o), err |-> AsText(e)] : o \in outs, e \in errs}
  ELSE IF v = "Remote"
    THEN {[out |-> AsBytes(o), err |-> AsBytes(e)] : o \in outs, e \in errs}
  ELSE {[out |-> m, err |-> Absent] :
          m \in {Absent} \cup {AsBytes(o) : o \in outs}}

Captures(v) == CapturesOf(v, OutTexts, ErrTexts)

\* RemoteExecutorBearer.__init__: accept_unknown_host and its default.
\* A bearer constructed without the flag gets the warn-and-accept policy.
AcceptArgs == {"true", "false", "omitted"}
DefaultAcceptUnknownHost == "true"

MissingHostPolicy_Fixed(arg) == "RejectPolicy"
MissingHostPolicy(arg) ==
  LET flag == IF arg = "omitted" THEN DefaultAcceptUnknownHost ELSE arg IN
    IF flag = "true" THEN "WarningPolicy" ELSE "RejectPolicy"

\* _run_cmd: nonzero completion raises unless tolerated.
RunCmdRaises_IgnoresTolerate(status, tolerate_err) == status # 0
RunCmdRaises(status, tolerate_err) == status # 0 /\ ~tolerate_err

\* _run_cmd: the (stdout, stderr) pair returned for a raw capture.
RunCmdResult_NoNormalise(v, cap) ==
  IF v = "Local" THEN <<cap.out.data, cap.err.data>>
  ELSE IF v = "Remote" THEN <<Decode(cap.out), Decode(cap.err)>>
  ELSE <<Decode(cap.out), Decode(cap.out)>>
RunCmdResult(v, cap) ==
  IF v = "Local" THEN <<cap.out.data, cap.err.data>>
  ELSE IF v = "Remote" THEN <<Decode(cap.out), Decode(cap.err)>>
  ELSE LET t == IF cap.out = Absent THEN EmptyText ELSE Decode(cap.out)
       IN <<t, t>>

NoReturn == <<>>

\* RemoteExecutorBearer._add_file: chmod(path, 600)
RemoteChmodMode == 600
NoMode == 0 - 1

NoFailure == [type |-> "none", call |-> 0]
Failure(type, n) == [type |-> type, call |-> n]

\* The record of one _run_cmd issued on the bearer.
RunCmdCall(v, cmd, tolerate_err, status, cap, policy, target) ==
  [op |-> "run_cmd", cmd |-> cmd, tolerate_err |-> tolerate_err,
   status |-> status, cap |-> cap,
   raised |-> RunCmdRaises(status, tolerate_err),
   ret |-> IF RunCmdRaises(status, tolerate_err)
             THEN NoReturn ELSE RunCmdResult(v, cap),
   policy |-> policy, target |-> target,
   data |-> EmptyText, path |-> EmptyText, mode |-> NoMode]

\* _add_file: every bearer places the file under /tmp.
StagedPath(filename) == <<"/tmp/">> \o filename

\* _add_file: the numeric mode a remote bearer hands to sftp chmod after the
\* upload (the other two bearers set no mode).
FileMode(v) == IF v = "Remote" THEN RemoteChmodMode ELSE NoMode

\* The record of one _add_file issued on the bearer; ok is the result of the
\* backend's placement (put_archive for a container).
AddFileCall(v, data, filename, ok, target) ==
  [op |-> "add_file", cmd |-> filename, tolerate_err |-> FALSE,
   status |-> 0, cap |-> [out |-> Absent, err |-> Absent],
   raised |-> (v = "Container" /\ ~ok),
   ret |-> NoReturn, policy |-> "n/a", target |-> target,
   data |-> data, path |-> StagedPath(filename), mode |-> FileMode(v)]

\* No bearer has been constructed.
BearerIdle ==
  /\ variant = "none"
  /\ accept_unknown_host = "n/a"
  /\ missing_host_policy = "n/a"
  /\ bpc = "idle"
  /\ container = 0
  /\ created = 0
  /\ live = {}
  /\ removeCalls = <<>>
  /\ calls = <<>>
  /\ pending = NoFailure
  /\ propagated = <<>>
  /\ scopes = 0

\* __init__ of the three bearers.
BearerConstructed ==
  /\ variant \in Variants
  /\ accept_unknown_host \in
       (IF variant = "Remote" THEN AcceptArgs ELSE {"n/a"})
  /\ missing_host_policy =
       (IF variant = "Remote" THEN MissingHostPolicy(accept_unknown_host)
        ELSE "n/a")
  /\ bpc = "constructed"
  /\ container = 0
  /\ created = 0
  /\ live = {}
  /\ removeCalls = <<>>
  /\ calls = <<>>
  /\ pending = NoFailure
  /\ propagated = <<>>
  /\ scopes = 0

\* A call can be issued: inside the scope, or on a Local/Remote bearer that
\* is used without one; never while a failure is in flight.
CanCall ==
  /\ pending = NoFailure
  /\ Len(calls) < MaxCalls
  /\ \/ bpc = "entered"
     \/ bpc = "constructed" /\ variant # "Container"

\* __enter__: a container bearer creates a container from its image, starts
\* it and records its identifier; the other two have nothing to acquire.
Acquire ==
  /\ bpc \in {"constructed", "exited"}
  /\ scopes < MaxScopes
  /\ scopes' = scopes + 1
  /\ bpc' = "entered"
  /\ IF variant = "Container"
       THEN /\ created' = created + 1
            /\ container' = created + 1
            /\ live' = live \cup {created + 1}
       ELSE UNCHANGED <<created, container, live>>
  /\ UNCHANGED <<variant, accept_unknown_host, missing_host_policy,
                 removeCalls, calls, pending, propagated>>
  /\ UNCHANGED <<retryVars, loginVars, inspectVars, tagVars, decoVars>>

\* __exit__ of a container bearer.
ReleaseContainer_OnlyOnSuccess ==
  IF pending = NoFailure
    THEN /\ removeCalls' = Append(removeCalls, container)
         /\ live' = live \ {container}
    ELSE UNCHANGED <<removeCalls, live>>
ReleaseContainer ==
  /\ removeCalls' = Append(removeCalls, container)
  /\ live' = live \ {container}

\* An __exit__ that returns a true value: the failure in flight is dropped.
Release_Swallows ==
  /\ bpc = "entered"
  /\ bpc' = "exited"
  /\ IF variant = "Container"
       THEN ReleaseContainer
       ELSE UNCHANGED <<removeCalls, live>>
  /\ propagated' = propagated
  /\ pending' = NoFailure
  /\ UNCHANGED <<variant, accept_unknown_host, missing_host_policy,
                 container, created, calls, scopes>>
  /\ UNCHANGED <<retryVars, loginVars, inspectVars, tagVars, decoVars>>

\* __exit__: runs on every way out of the scope, with or without a failure
\* in flight; the container is force-removed by its recorded identifier and
\* the failure, if any, goes on to the caller.
Release ==
  /\ bpc = "entered"
  /\ bpc' = "exited"
  /\ IF variant = "Container"
       THEN ReleaseContainer
       ELSE UNCHANGED <<removeCalls, live>>
  /\ propagated' =
       (IF pending = NoFailure THEN propagated ELSE Append(propagated, pending))
  /\ pending' = NoFailure
  /\ UNCHANGED <<variant, accept_unknown_host, missing_host_policy,
                 container, created, calls, scopes>>
  /\ UNCHANGED <<retryVars, loginVars, inspectVars, tagVars, decoVars>>

\* _run_cmd(cmd, tolerate_err=...) with the backend completing the command
\* with some status and some captured output.
RunCmd ==
  /\ CanCall
  /\ \E tolerate_err \in BOOLEAN, status \in Statuses, cap \in Captures(variant) :
       LET c == RunCmdCall(variant, <<"cmd">>, tolerate_err, status, cap,
                           missing_host_policy, container) IN
         /\ calls' = Append(calls, c)
         /\ pending' =
              (IF c.raised THEN Failure("command", Len(calls) + 1) ELSE NoFailure)
  /\ UNCHANGED <<variant, accept_unknown_host, missing_host_policy, bpc,
                 container, created, live, removeCalls, propagated, scopes>>
  /\ UNCHANGED <<retryVars, loginVars, inspectVars, tagVars, decoVars>>

\* _add_file(data, filename); a container bearer raises the staging failure
\* when the archive upload reports failure.
AddFile ==
  /\ CanCall
  /\ \E ok \in BOOLEAN :
       LET c == AddFileCall(variant, <<"some-data">>, <<"some_file">>, ok,
                            container) IN
         /\ calls' = Append(calls, c)
         /\ pending' =
              (IF c.raised THEN Failure("staging", Len(calls) + 1) ELSE NoFailure)
  /\ UNCHANGED <<variant, accept_unknown_host, missing_host_policy, bpc,
                 container, created, live, removeCalls, propagated, scopes>>
  /\ UNCHANGED <<retryVars, loginVars, inspectVars, tagVars, decoVars>>

\* The body of the scope raises a failure of its own.
BodyRaises ==
  /\ bpc = "entered"
  /\ pending = NoFailure
  /\ pending' = Failure("body", 0)
  /\ UNCHANGED <<variant, accept_unknown_host, missing_host_policy, bpc,
                 container, created, live, removeCalls, calls, propagated,
                 scopes>>
  /\ UNCHANGED <<retryVars, loginVars, inspectVars, tagVars, decoVars>>

\* The caller handles the failure of a call itself (try/except around it)
\* and goes on.
BodyCatches ==
  /\ pending.type \in {"command", "staging"}
  /\ pending' = NoFailure
  /\ UNCHANGED <<variant, accept_unknown_host, missing_host_policy, bpc,
                 container, created, live, removeCalls, calls, propagated,
                 scopes>>
  /\ UNCHANGED <<retryVars, loginVars, inspectVars, tagVars, decoVars>>

\* A failure of a call made outside any scope reaches the caller.
Propagate ==
  /\ bpc = "constructed"
  /\ pending # NoFailure
  /\ propagated' = Append(propagated, pending)
  /\ pending' = NoFailure
  /\ bpc' = "failed"
  /\ UNCHANGED <<variant, accept_unknown_host, missing_host_policy,
                 container, created, live, removeCalls, calls, scopes>>
  /\ UNCHANGED <<retryVars, loginVars, inspectVars, tagVars, decoVars>>

BearerNext ==
  \/ Acquire
  \/ Release
  \/ RunCmd
  \/ AddFile
  \/ BodyRaises
  \/ BodyCatches
  \/ Propagate

(***************************************************************************)
(* skopeo.py: SkopeoCommands.skopeo_login, run on a bearer.                *)
(***************************************************************************)
\* An optional text argument: not given (None), or a text (possibly empty).
NoArg == [given |-> FALSE, text |-> EmptyText]
Arg(t) == [given |-> TRUE, text |-> t]

\* Python truthiness of an optional text: None and "" are falsy.
Truthy(a) == a.given /\ a.text # EmptyText

Usernames == {NoArg, Arg(EmptyText), Arg(<<"user">>)}
Passwords == {NoArg, Arg(EmptyText), Arg(<<"pw">>)}

\* shlex.quote: '' for the empty text, the text itself when every symbol is
\* shell-safe, else the text in single quotes with its single quotes escaped.
UnsafeSymbols == {" ", "$", "'", ";"}
RECURSIVE EscapeQuotes(_)
EscapeQuotes(t) ==
  IF t = <<>> THEN <<>>
  ELSE (IF Head(t) = "'" THEN <<"'", "\"", "'", "\"", "'">> ELSE <<Head(t)>>)
       \o EscapeQuotes(Tail(t))
Quote(t) ==
  IF t = EmptyText THEN <<"''">>
  ELSE IF \A k \in 1..Len(t) : t[k] \notin UnsafeSymbols THEN t
  ELSE <<"'">> \o EscapeQuotes(t) \o <<"'">>

\* skopeo.py:52
cmd_check == <<"skopeo", "login", "--get-login", "quay.io">>
\* skopeo.py:64
password_file == <<"skopeo_password.txt">>
\* skopeo.py:67-70
cmd_login_WrongPath(user, file) ==
  <<"sh", "-c", "cat">> \o file \o
  <<"|", "skopeo", "login", "--authfile", "$HOME/.docker/config.json", "-u">>
  \o user \o <<"--password-stdin", "quay.io">>
cmd_login(user, file) ==
  <<"sh", "-c", "cat", "/tmp/">> \o file \o
  <<"|", "skopeo", "login", "--authfile", "$HOME/.docker/config.json", "-u">>
  \o user \o <<"--password-stdin", "quay.io">>

\* What the get-login check and the login command may print.
LoginTexts == {EmptyText, <<"user">>, <<"user", "2">>, <<"Login", "Succeeded">>}

\* skopeo.py:54  `username and username in out`
AlreadyLoggedIn_Exact(user, out) == Truthy(user) /\ out = user.text
AlreadyLoggedIn(user, out) == Truthy(user) /\ Contains(user.text, out)

\* skopeo.py:58  `not username or not password`
CredentialsMissing_BothOnly(user, pass) == ~Truthy(user) /\ ~Truthy(pass)
CredentialsMissing(user, pass) == ~Truthy(user) \/ ~Truthy(pass)

\* skopeo.py:73  `"Login Succeeded" in out`
LoginSucceeded_Always(out) == TRUE
LoginSucceeded(out) == Contains(<<"Login", "Succeeded">>, out)

\* skopeo.py:59-61  the message of the ValueError
CredentialsMessage ==
  <<"Skopeo login credentials are not present.",
    "Quay user and token must be provided.">>

\* skopeo.py:76-79  the message of the RuntimeError, embedding out and err
LoginMessage(out, err) ==
  <<"Login command didn't generate expected output.", "STDOUT:", "'">>
  \o out \o <<"'", ",", "STDERR:", "'">> \o err \o <<"'">>

NoMessage == <<>>

\* skopeo_login has not been called.
LoginIdle ==
  /\ username = NoArg
  /\ password = NoArg
  /\ lpc = "idle"
  /\ lout = NoReturn
  /\ lraised = "none"
  /\ lmessage = NoMessage
  /\ llog = <<>>

LoginStart ==
  /\ username \in Usernames
  /\ password \in Passwords
  /\ lpc = "start"
  /\ lout = NoReturn
  /\ lraised = "none"
  /\ lmessage = NoMessage
  /\ llog = <<>>

\* The bearer the command set is built around, ready for calls: constructed,
\* and for a container bearer inside its scope with its container live.
BearerReady ==
  /\ variant \in Variants
  /\ accept_unknown_host \in
       (IF variant = "Remote" THEN AcceptArgs ELSE {"n/a"})
  /\ missing_host_policy =
       (IF variant = "Remote" THEN MissingHostPolicy(accept_unknown_host)
        ELSE "n/a")
  /\ bpc = (IF variant = "Container" THEN "entered" ELSE "constructed")
  /\ container = (IF variant = "Container" THEN 1 ELSE 0)
  /\ created = (IF variant = "Container" THEN 1 ELSE 0)
  /\ live = (IF variant = "Container" THEN {1} ELSE {})
  /\ removeCalls = <<>>
  /\ calls = <<>>
  /\ pending = NoFailure
  /\ propagated = <<>>
  /\ scopes = (IF variant = "Container" THEN 1 ELSE 0)

loginFrame == <<variant, accept_unknown_host, missing_host_policy, bpc,
                container, created, live, removeCalls, pending, propagated,
                scopes>>

\* skopeo.py:52-53  the get-login check, tolerating its failure
LoginCheck ==
  /\ lpc = "start"
  /\ \E status \in Statuses, cap \in CapturesOf(variant, LoginTexts, ErrTexts) :
       LET c == RunCmdCall(variant, cmd_check, TRUE, status, cap,
                           missing_host_policy, container) IN
         /\ calls' = Append(calls, c)
         /\ IF c.raised
              THEN /\ lpc' = "raised"
                   /\ lraised' = "command"
                   /\ lout' = lout
              ELSE /\ lpc' = "checked"
                   /\ lraised' = lraised
                   /\ lout' = c.ret
  /\ UNCHANGED <<username, password, lmessage, llog>>
  /\ UNCHANGED loginFrame
  /\ UNCHANGED <<retryVars, inspectVars, tagVars, decoVars>>

\* skopeo.py:54-56  the user is already logged in: nothing more to do
LoginAlready ==
  /\ lpc = "checked"
  /\ AlreadyLoggedIn(username, lout[1])
  /\ llog' = Append(llog, "Already logged in to Quay.io")
  /\ lpc' = "returned"
  /\ UNCHANGED <<username, password, lout, lraised, lmessage, calls>>
  /\ UNCHANGED loginFrame
  /\ UNCHANGED <<retryVars, inspectVars, tagVars, decoVars>>

LoginMissingCredentials_AfterStaging ==
  /\ lpc = "checked"
  /\ ~AlreadyLoggedIn(username, lout[1])
  /\ CredentialsMissing(username, password)
  /\ calls' = Append(calls, AddFileCall(variant, password.text, password_file,
                                        TRUE, container))
  /\ lraised' = "ValueError"
  /\ lmessage' = CredentialsMessage
  /\ lpc' = "raised"
  /\ UNCHANGED <<username, password, lout, llog>>
  /\ UNCHANGED loginFrame
  /\ UNCHANGED <<retryVars, inspectVars, tagVars, decoVars>>

\* skopeo.py:58-61  credentials are not present
LoginMissingCredentials ==
  /\ lpc = "checked"
  /\ ~AlreadyLoggedIn(username, lout[1])
  /\ CredentialsMissing(username, password)
  /\ lraised' = "ValueError"
  /\ lmessage' = CredentialsMessage
  /\ lpc' = "raised"
  /\ UNCHANGED <<username, password, lout, llog, calls>>
  /\ UNCHANGED loginFrame
  /\ UNCHANGED <<retryVars, inspectVars, tagVars, decoVars>>

\* skopeo.py:62-65  stage the password file on the bearer
LoginStage ==
  /\ lpc = "checked"
  /\ ~AlreadyLoggedIn(username, lout[1])
  /\ ~CredentialsMissing(username, password)
  /\ llog' = Append(llog, "Logging in to Quay with provided credentials")
  /\ \E ok \in BOOLEAN :
       LET c == AddFileCall(variant, password.text, password_file, ok,
                            container) IN
         /\ calls' = Append(calls, c)
         /\ IF c.raised
              THEN lpc' = "raised" /\ lraised' = "staging"
              ELSE lpc' = "staged" /\ lraised' = lraised
  /\ UNCHANGED <<username, password, lout, lmessage>>
  /\ UNCHANGED loginFrame
  /\ UNCHANGED <<retryVars, inspectVars, tagVars, decoVars>>

LoginRun_Retried ==
  /\ lpc = "staged"
  /\ \E status \in Statuses, cap \in CapturesOf(variant, LoginTexts, ErrTexts) :
       LET c == RunCmdCall(variant,
                           cmd_login(Quote(username.text), Quote(password_file)),
                           FALSE, status, cap, missing_host_policy, container) IN
         /\ calls' = Append(calls, c)
         /\ IF c.raised
              THEN IF Len(calls) < 3
                     THEN /\ lpc' = "staged"
                          /\ lraised' = lraised
                          /\ lout' = lout
                     ELSE /\ lpc' = "raised"
                          /\ lraised' = "command"
                          /\ lout' = lout
              ELSE /\ lpc' = "ran"
                   /\ lraised' = lraised
                   /\ lout' = c.ret
  /\ UNCHANGED <<username, password, lmessage, llog>>
  /\ UNCHANGED loginFrame
  /\ UNCHANGED <<retryVars, inspectVars, tagVars, decoVars>>

\* skopeo.py:67-71  run the login command reading the staged file
LoginRun ==
  /\ lpc = "staged"
  /\ \E status \in Statuses, cap \in CapturesOf(variant, LoginTexts, ErrTexts) :
       LET c == RunCmdCall(variant,
                           cmd_login(Quote(username.text), Quote(password_file)),
                           FALSE, status, cap, missing_host_policy, container) IN
         /\ calls' = Append(calls, c)
         /\ IF c.raised
              THEN /\ lpc' = "raised"
                   /\ lraised' = "command"
                   /\ lout' = lout
              ELSE /\ lpc' = "ran"
                   /\ lraised' = lraised
                   /\ lout' = c.ret
  /\ UNCHANGED <<username, password, lmessage, llog>>
  /\ UNCHANGED loginFrame
  /\ UNCHANGED <<retryVars, inspectVars, tagVars, decoVars>>

\* skopeo.py:73-79  the login command must have printed "Login Succeeded"
LoginVerify ==
  /\ lpc = "ran"
  /\ IF LoginSucceeded(lout[1])
       THEN /\ llog' = Append(llog, "Login successful")
            /\ lpc' = "returned"
            /\ lraised' = lraised
            /\ lmessage' = lmessage
       ELSE /\ llog' = llog
            /\ lpc' = "raised"
            /\ lraised' = "RuntimeError"
            /\ lmessage' = LoginMessage(lout[1], lout[2])
  /\ UNCHANGED <<username, password, lout, calls>>
  /\ UNCHANGED loginFrame
  /\ UNCHANGED <<retryVars, inspectVars, tagVars, decoVars>>

LoginNext ==
  \/ LoginCheck
  \/ LoginAlready
  \/ LoginMissingCredentials
  \/ LoginStage
  \/ LoginRun
  \/ LoginVerify

(***************************************************************************)
(* SkopeoCommands.skopeo_inspect (skopeo.py:81-103)                        *)
(***************************************************************************)

ImageRefs == {<<"quay.io/ns/repo:1">>, <<"quay.io/ns/repo", ";", "x">>}
InspectTexts == {EmptyText, <<"{", "}">>, <<"outlog">>}

\* json.loads: the texts it accepts, and the value it builds from one.
IsJson(t) == t = <<"{", "}">>
Loads(t) == [json |-> t]
NoValue == [json |-> <<"unset">>]

\* skopeo.py:97  the reference is formatted into the command as it is
cmd_inspect(ref) == <<"skopeo", "inspect", "docker://">> \o ref

InspectIdle ==
  /\ image_ref = EmptyText
  /\ raw = FALSE
  /\ ipc = "idle"
  /\ iout = NoReturn
  /\ iresult = NoValue
  /\ iraised = "none"

InspectStart ==
  /\ image_ref \in ImageRefs
  /\ raw \in BOOLEAN
  /\ ipc = "start"
  /\ iout = NoReturn
  /\ iresult = NoValue
  /\ iraised = "none"

\* skopeo.py:97-98  run the inspect command, not tolerating its failure
InspectRun ==
  /\ ipc = "start"
  /\ \E status \in Statuses,
        cap \in CapturesOf(variant, InspectTexts, ErrTexts) :
       LET c == RunCmdCall(variant, cmd_inspect(image_ref), FALSE, status,
                           cap, missing_host_policy, container) IN
         /\ calls' = Append(calls, c)
         /\ IF c.raised
              THEN /\ ipc' = "raised"
                   /\ iraised' = "command"
                   /\ iout' = iout
              ELSE /\ ipc' = "ran"
                   /\ iraised' = iraised
                   /\ iout' = c.ret
  /\ UNCHANGED <<image_ref, raw, iresult>>
  /\ UNCHANGED loginFrame
  /\ UNCHANGED <<retryVars, loginVars, tagVars, decoVars>>

\* skopeo.py:100-101  raw: the output is returned as it is
InspectReturnRaw ==
  /\ ipc = "ran"
  /\ raw
  /\ iresult' = iout[1]
  /\ ipc' = "returned"
  /\ UNCHANGED <<image_ref, raw, iout, iraised, calls>>
  /\ UNCHANGED loginFrame
  /\ UNCHANGED <<retryVars, loginVars, tagVars, decoVars>>

\* skopeo.py:102-103  otherwise the output is parsed; json.loads raises on
\* a text that is not JSON
InspectReturnParsed ==
  /\ ipc = "ran"
  /\ ~raw
  /\ IF IsJson(iout[1])
       THEN /\ iresult' = Loads(iout[1])
            /\ ipc' = "returned"
            /\ iraised' = iraised
       ELSE /\ iresult' = iresult
            /\ ipc' = "raised"
            /\ iraised' = "JSONDecodeError"
  /\ UNCHANGED <<image_ref, raw, iout, calls>>
  /\ UNCHANGED loginFrame
  /\ UNCHANGED <<retryVars, loginVars, tagVars, decoVars>>

InspectNext ==
  \/ InspectRun
  \/ InspectReturnRaw
  \/ InspectReturnParsed

(***************************************************************************)
(* SkopeoCommands.tag_images (skopeo.py:15-38), under @retry("Tag images") *)
(***************************************************************************)

\* helpers.py:46  the policy of a decorator given only its message
DefaultTries == 4
DefaultWaitIncrease == 10

SourceRefs == {<<"quay.io/src/repo:1">>}
DestRefs == {<<"quay.io/dst/repo:1">>, <<"quay.io/dst/repo", ";", "2">>}
DestLists == UNION {[1..n -> DestRefs] : n \in 0..MaxDests}
TagStatuses == {0, 1}
TagTexts == {<<"Copying", "blob">>}

\* The captures of a copy: the command prints its progress, so an exec
\* session always hands back a stream (tag_images discards the output).
TagCaptures(v) ==
  {c \in CapturesOf(v, TagTexts, ErrTexts) : c.out # Absent}

\* skopeo.py:28-31,35  the copy command for one destination
cmd_copy(all, src, dst) ==
  <<"skopeo", "copy">> \o (IF all THEN <<"--all">> ELSE <<>>)
  \o <<"docker://">> \o Quote(src) \o <<"docker://">> \o Quote(dst)

\* skopeo.py:33  `for dest_ref in dest_refs`: the destination after index k
NextDest_Skips(k) == k + 2
NextDest(k) == k + 1

\* One entry of the function's trace: a LOG.info line or the copy command,
\* with the destination it is about and the attempt it belongs to.
TagEv(ev, dest, attempt) == [ev |-> ev, dest |-> dest, attempt |-> attempt]

TagIdle ==
  /\ source_ref = EmptyText
  /\ dest_refs = <<>>
  /\ all_arch = FALSE
  /\ d = 0
  /\ tlog = <<>>

\* helpers.py:63-66  the wrapper of tag_images has called run_with_retries
\* with the decorator's policy; the first attempt is about to start.
TagStart ==
  /\ source_ref \in SourceRefs
  /\ dest_refs \in DestLists
  /\ all_arch \in BOOLEAN
  /\ d = 1
  /\ tlog = <<>>
  /\ tries = DefaultTries
  /\ wait_time_increase = DefaultWaitIncrease
  /\ i = 0
  /\ wait_time = 0
  /\ rpc = "loop"
  /\ result = Unset
  /\ raised = NoExc
  /\ invocations = <<>>
  /\ events = <<>>

\* skopeo.py:33-36  one destination: log, copy, log; the copy succeeded
TagCopyReturns ==
  /\ rpc = "loop"
  /\ i < tries
  /\ d \in 1..Len(dest_refs)
  /\ \E status \in TagStatuses,
        cap \in TagCaptures(variant) :
       LET c == RunCmdCall(variant,
                           cmd_copy(all_arch, source_ref, dest_refs[d]),
                           FALSE, status, cap, missing_host_policy,
                           container) IN
         /\ ~c.raised
         /\ calls' = Append(calls, c)
  /\ tlog' = tlog \o <<TagEv("tagging", dest_refs[d], Len(invocations) + 1),
                       TagEv("copy", dest_refs[d], Len(invocations) + 1),
                       TagEv("tagged", dest_refs[d], Len(invocations) + 1)>>
  /\ d' = NextDest(d)
  /\ UNCHANGED <<source_ref, dest_refs, all_arch>>
  /\ UNCHANGED loginFrame
  /\ UNCHANGED <<retryVars, loginVars, inspectVars, decoVars>>

TagCopyRaisesRetry_Resumes ==
  /\ d \in 1..Len(dest_refs)
  /\ \E status \in TagStatuses,
        cap \in TagCaptures(variant) :
       LET c == RunCmdCall(variant,
                           cmd_copy(all_arch, source_ref, dest_refs[d]),
                           FALSE, status, cap, missing_host_policy,
                           container) IN
         /\ c.raised
         /\ calls' = Append(calls, c)
  /\ FunctionRaisesRetry
  /\ tlog' = tlog \o <<TagEv("tagging", dest_refs[d], Len(invocations) + 1),
                       TagEv("copy", dest_refs[d], Len(invocations) + 1)>>
  /\ d' = d
  /\ UNCHANGED <<source_ref, dest_refs, all_arch>>
  /\ UNCHANGED loginFrame
  /\ UNCHANGED <<loginVars, inspectVars, decoVars>>

\* skopeo.py:33-35, helpers.py:33-41  the copy raised and tries remain:
\* the attempt ends, run_with_retries warns, sleeps and calls the function
\* again from its first destination
TagCopyRaisesRetry ==
  /\ d \in 1..Len(dest_refs)
  /\ \E status \in TagStatuses,
        cap \in TagCaptures(variant) :
       LET c == RunCmdCall(variant,
                           cmd_copy(all_arch, source_ref, dest_refs[d]),
                           FALSE, status, cap, missing_host_policy,
                           container) IN
         /\ c.raised
         /\ calls' = Append(calls, c)
  /\ FunctionRaisesRetry
  /\ tlog' = tlog \o <<TagEv("tagging", dest_refs[d], Len(invocations) + 1),
                       TagEv("copy", dest_refs[d], Len(invocations) + 1)>>
  /\ d' = 1
  /\ UNCHANGED <<source_ref, dest_refs, all_arch>>
  /\ UNCHANGED loginFrame
  /\ UNCHANGED <<loginVars, inspectVars, decoVars>>

\* skopeo.py:33-35, helpers.py:42-43  the copy raised on the last try:
\* the failure leaves tag_images and its wrapper
TagCopyRaisesLast ==
  /\ d \in 1..Len(dest_refs)
  /\ \E status \in TagStatuses,
        cap \in TagCaptures(variant) :
       LET c == RunCmdCall(variant,
                           cmd_copy(all_arch, source_ref, dest_refs[d]),
                           FALSE, status, cap, missing_host_policy,
                           container) IN
         /\ c.raised
         /\ calls' = Append(calls, c)
  /\ FunctionRaisesLast
  /\ tlog' = tlog \o <<TagEv("tagging", dest_refs[d], Len(invocations) + 1),
                       TagEv("copy", dest_refs[d], Len(invocations) + 1)>>
  /\ UNCHANGED <<source_ref, dest_refs, all_arch, d>>
  /\ UNCHANGED loginFrame
  /\ UNCHANGED <<loginVars, inspectVars, decoVars>>

\* skopeo.py:38, helpers.py:28-32  every destination is done: log the
\* completion; the function returns None and so does run_with_retries
TagComplete ==
  /\ d > Len(dest_refs)
  /\ FunctionReturns("None")
  /\ tlog' = Append(tlog, TagEv("complete", EmptyText, Len(invocations) + 1))
  /\ UNCHANGED <<source_ref, dest_refs, all_arch, d, calls>>
  /\ UNCHANGED loginFrame
  /\ UNCHANGED <<loginVars, inspectVars, decoVars>>

TagNext ==
  \/ TagCopyReturns
  \/ TagCopyRaisesRetry
  \/ TagCopyRaisesLast
  \/ TagComplete

(***************************************************************************)
(* retry, the decorator (helpers.py:46-68)                                 *)
(***************************************************************************)

\* The arguments of a call: positional ones in order, keyword ones as pairs.
CallArgs(args, kwargs) == [args |-> args, kwargs |-> kwargs]
NoArgs == CallArgs(<<>>, <<>>)
Positionals == {<<>>, <<"a">>, <<"a", "b">>}
Keywords == {<<>>, <<<<"k", "v">>>>}

\* helpers.py:63  functools.partial(func, *args, **kwargs): the arguments
\* the partial holds
Partial(a) == CallArgs(a.args, a.kwargs)

\* functools.partial called with no argument: what func receives
PartialCall(b) == CallArgs(b.args \o <<>>, b.kwargs)

\* helpers.py:64  the policy handed to run_with_retries, as <<tries,
\* wait_time_increase>>
WrapperPolicy_Swapped(t, w) == <<w, t>>
WrapperPolicy(t, w) == <<t, w>>

\* helpers.py:64  `return run_with_retries(...)`: the wrapper's own result
WrapperResult(v) == v

DecoIdle ==
  /\ dtries = 0
  /\ dwait = 0
  /\ wargs = NoArgs
  /\ bound = NoArgs
  /\ received = <<>>
  /\ wpc = "idle"
  /\ wresult = Unset
  /\ wraised = NoExc

\* A function decorated with retry(message, dtries, dwait) has been called
\* with wargs.
DecoStart ==
  /\ dtries \in 0..MaxTries
  /\ dwait \in 0..MaxWaitIncrease
  /\ wargs \in {CallArgs(a, k) : a \in Positionals, k \in Keywords}
  /\ bound = NoArgs
  /\ received = <<>>
  /\ wpc = "called"
  /\ wresult = Unset
  /\ wraised = NoExc

decoFrame == <<bearerVars, loginVars, inspectVars, tagVars>>

\* helpers.py:63-64, 26  bind the arguments and enter run_with_retries
WrapperCall ==
  /\ wpc = "called"
  /\ bound' = Partial(wargs)
  /\ tries' = WrapperPolicy(dtries, dwait)[1]
  /\ wait_time_increase' = WrapperPolicy(dtries, dwait)[2]
  /\ wait_time' = 0
  /\ i' = 0
  /\ rpc' = "loop"
  /\ wpc' = "running"
  /\ UNCHANGED <<result, raised, invocations, events>>
  /\ UNCHANGED <<dtries, dwait, wargs, received, wresult, wraised>>
  /\ UNCHANGED decoFrame

\* helpers.py:29  function() is bound(): func receives the bound arguments
BoundReturns ==
  /\ wpc = "running"
  /\ \E v \in Results : FunctionReturns(v)
  /\ received' = Append(received, PartialCall(bound))
  /\ UNCHANGED <<dtries, dwait, wargs, bound, wpc, wresult, wraised>>
  /\ UNCHANGED decoFrame

BoundRaisesRetry ==
  /\ wpc = "running"
  /\ FunctionRaisesRetry
  /\ received' = Append(received, PartialCall(bound))
  /\ UNCHANGED <<dtries, dwait, wargs, bound, wpc, wresult, wraised>>
  /\ UNCHANGED decoFrame

BoundRaisesLast ==
  /\ wpc = "running"
  /\ FunctionRaisesLast
  /\ received' = Append(received, PartialCall(bound))
  /\ UNCHANGED <<dtries, dwait, wargs, bound, wpc, wresult, wraised>>
  /\ UNCHANGED decoFrame

BoundRaisesBase ==
  /\ wpc = "running"
  /\ FunctionRaisesBase
  /\ received' = Append(received, PartialCall(bound))
  /\ UNCHANGED <<dtries, dwait, wargs, bound, wpc, wresult, wraised>>
  /\ UNCHANGED decoFrame

\* helpers.py:64  run_with_retries returned: the wrapper returns its value
WrapperReturns ==
  /\ wpc = "running"
  /\ rpc = "returned"
  /\ wresult' = WrapperResult(result)
  /\ wpc' = "returned"
  /\ UNCHANGED <<dtries, dwait, wargs, bound, received, wraised>>
  /\ UNCHANGED retryVars
  /\ UNCHANGED decoFrame

\* helpers.py:64  run_with_retries raised: the failure leaves the wrapper
WrapperRaises ==
  /\ wpc = "running"
  /\ rpc = "raised"
  /\ wraised' = raised
  /\ wpc' = "raised"
  /\ UNCHANGED <<dtries, dwait, wargs, bound, received, wresult>>
  /\ UNCHANGED retryVars
  /\ UNCHANGED decoFrame

DecoNext ==
  \/ WrapperCall
  \/ BoundReturns
  \/ BoundRaisesRetry
  \/ BoundRaisesLast
  \/ BoundRaisesBase
  \/ LoopExhausted
  \/ WrapperReturns
  \/ WrapperRaises

(***************************************************************************)
(* Specifications.                                                         *)
(***************************************************************************)
RetryInit == RetryStart /\ BearerIdle /\ LoginIdle /\ InspectIdle /\ TagIdle /\ DecoIdle

SpecRetry == RetryInit /\ [][RetryNext]_vars

BearerInit ==
  BearerConstructed /\ RetryIdle /\ LoginIdle /\ InspectIdle /\ TagIdle /\ DecoIdle

SpecBearer == BearerInit /\ [][BearerNext]_vars

LoginInit ==
  LoginStart /\ BearerReady /\ RetryIdle /\ InspectIdle /\ TagIdle /\ DecoIdle

SpecLogin == LoginInit /\ [][LoginNext]_vars

\* tag_images called on a ready bearer.
TagInit == TagStart /\ BearerReady /\ LoginIdle /\ InspectIdle /\ DecoIdle

SpecTag == TagInit /\ [][TagNext]_vars

\* One operation of the command set (login, inspect or tag) called on a
\* ready bearer.
SkopeoInit ==
  /\ BearerReady
  /\ \/ LoginStart /\ RetryIdle /\ InspectIdle /\ TagIdle /\ DecoIdle
     \/ InspectStart /\ RetryIdle /\ LoginIdle /\ TagIdle /\ DecoIdle
     \/ TagStart /\ LoginIdle /\ InspectIdle /\ DecoIdle

SkopeoNext ==
  \/ LoginNext
  \/ InspectNext
  \/ TagNext

SpecSkopeo == SkopeoInit /\ [][SkopeoNext]_vars

\* A decorated function called once.
DecoInit ==
  DecoStart /\ RetryIdle /\ BearerIdle /\ LoginIdle /\ InspectIdle /\ TagIdle

SpecDecorated == DecoInit /\ [][DecoNext]_vars

(***************************************************************************)
(* Properties of run_with_retries.                                         *)
(***************************************************************************)
\* The sleeps of the run, in order; the k-th follows failed attempt k-1.
IsSleep(e) == e.ev = "sleep"
Sleeps == SelectSeq(events, IsSleep)

IsCallOrSleep(e) == e.ev \in {"call", "sleep"}
RunsAndWaits == SelectSeq(events, IsCallOrSleep)

\* Every invocation so far raised a failure of class Exception.
AllFailed ==
  \A j \in 1..Len(invocations) :
    invocations[j].kind = "exc" /\ invocations[j].exc.cls = "Exception"

Min(a, b) == IF a < b THEN a ELSE b

\* C2: with tries >= 1, an operation that raises (class Exception) on its
\* first k < tries invocations and succeeds on invocation k+1 is invoked
\* exactly k+1 times: after k < tries failures the run goes on to the next
\* invocation, and a run that returned made k+1 <= tries invocations, all but
\* the last failed, and returned the last one's value without raising.
C2_RecoverableReturns ==
  tries >= 1 =>
    /\ (AllFailed /\ Len(invocations) < tries) =>
         (rpc = "loop" /\ i = Len(invocations))
    /\ rpc = "returned" =>
         LET n == Len(invocations) IN
           /\ n \in 1..tries
           /\ invocations[n].kind = "ret"
           /\ result = invocations[n].val
           /\ raised = NoExc
           /\ \A j \in 1..(n - 1) :
                invocations[j].kind = "exc" /\ invocations[j].exc.cls = "Exception"

\* C2 witness: two failures, then a success on the third of at least four tries.
C2_Witness ==
  /\ rpc = "returned"
  /\ tries >= 4
  /\ Len(invocations) = 3
  /\ result = "Success"

\* C3: with tries >= 1, an operation that raises (class Exception) on every
\* invocation is invoked exactly tries times, never fewer and never more, and
\* run_with_retries then raises.
C3_ExhaustionCount ==
  (tries >= 1 /\ AllFailed) =>
    /\ Len(invocations) <= tries
    /\ (Len(invocations) = tries) <=> (rpc = "raised")
    /\ rpc # "returned"

\* C3 witness: three tries, three failed invocations, the run has raised.
C3_Witness ==
  /\ tries = 3
  /\ AllFailed
  /\ Len(invocations) = 3
  /\ rpc = "raised"

\* C4: when the tries are exhausted, the exception that reaches the caller is
\* the one raised by the final (tries-th) invocation, and none of the
\* exceptions of the earlier attempts.
C4_FinalExceptionUnchanged ==
  (rpc = "raised" /\ AllFailed) =>
    /\ Len(invocations) = tries
    /\ raised = invocations[tries].exc
    /\ raised = ExcOf("Exception", tries)
    /\ \A j \in 1..(tries - 1) : invocations[j].exc # raised

\* C4 witness: exhaustion after several absorbed failures.
C4_Witness ==
  /\ rpc = "raised"
  /\ AllFailed
  /\ tries >= 3
  /\ raised.id = tries

\* C5: no sleep between attempts is longer than MAX_RETRY_WAIT; the wait
\* after the failed attempt with 0-based index idx is
\* min(idx * wait_time_increase, MAX_RETRY_WAIT).
C5_WaitCapped ==
  \A k \in 1..Len(Sleeps) :
    /\ Sleeps[k].n <= MAX_RETRY_WAIT
    /\ Sleeps[k].n = Min((k - 1) * wait_time_increase, MAX_RETRY_WAIT)

\* C6: below the cap the backoff is linear in the 0-based attempt index:
\* whenever idx * wait_time_increase <= MAX_RETRY_WAIT the sleep after failed
\* attempt idx is idx * wait_time_increase, so the first retry follows with
\* zero wait, and tries=4, wait_time_increase=10 give
\* RUN, WAIT 0, RUN, WAIT 10, RUN, WAIT 20, RUN.
C6_LinearBelowCap ==
  /\ \A k \in 1..Len(Sleeps) :
       (k - 1) * wait_time_increase <= MAX_RETRY_WAIT =>
         Sleeps[k].n = (k - 1) * wait_time_increase
  /\ (tries = 4 /\ wait_time_increase = 10 /\ Len(invocations) = 4) =>
       RunsAndWaits = <<CallEv(1), SleepEv(0), CallEv(2), SleepEv(10),
                        CallEv(3), SleepEv(20), CallEv(4)>>

\* C6 witness: the default policy after its fourth invocation.
C6_Witness ==
  /\ tries = 4
  /\ wait_time_increase = 10
  /\ Len(invocations) = 4
  /\ Len(Sleeps) = 3

\* C7: the sequence of sleep durations of one run is non-decreasing from one
\* retry to the next.
C7_WaitNonDecreasing ==
  \A k \in 1..(Len(Sleeps) - 1) : Sleeps[k].n <= Sleeps[k + 1].n

\* The records of one kind among the events of the run.
IsInfo(e) == e.ev = "info"
Infos == SelectSeq(events, IsInfo)
IsWarning(e) == e.ev = "warning"
Warnings == SelectSeq(events, IsWarning)
IsError(e) == e.ev = "error"
Errors == SelectSeq(events, IsError)

\* Invocation n raised a failure of class Exception.
FailedAt(n) ==
  invocations[n].kind = "exc" /\ invocations[n].exc.cls = "Exception"

\* C14: the info confirmation of success is logged if and only if the
\* successful invocation was preceded by at least one failed invocation of
\* the same run: a first-try success logs none, a run that raises logs none,
\* and the one logged names the successful try and is the last record.
C14_InfoIffRecovered ==
  /\ Len(Infos) =
       (IF rpc = "returned" /\ Len(invocations) >= 2 THEN 1 ELSE 0)
  /\ Len(Infos) = 1 =>
       events[Len(events)] = InfoEv(Len(invocations), tries)

\* C14 witness: success on the third invocation, confirmed once.
C14_Witness ==
  /\ rpc = "returned"
  /\ Len(invocations) = 3
  /\ result = "Success"
  /\ Infos = <<InfoEv(3, tries)>>

\* C18: every failed attempt that is not the last permitted one produces
\* exactly one warning naming the attempt (n of tries) and then exactly one
\* sleep of the announced length, both before the next invocation; the last
\* permitted failed attempt produces exactly one error record and no sleep.
\* A run performs at most tries-1 sleeps and none after its final invocation.
C18_WarnSleepThenRetry ==
  /\ \A p \in 1..Len(events) :
       (events[p].ev = "call" /\ FailedAt(events[p].n)) =>
         LET n == events[p].n IN
           IF n < tries
             THEN /\ p + 2 <= Len(events)
                  /\ events[p + 1].ev = "warning"
                  /\ events[p + 1].try = n
                  /\ events[p + 1].of = tries
                  /\ events[p + 2] = SleepEv(events[p + 1].n)
                  /\ p + 3 <= Len(events) => events[p + 3] = CallEv(n + 1)
             ELSE /\ Len(events) = p + 1
                  /\ events[p + 1] = ErrorEv
  /\ LET failedEarly ==
           Cardinality({n \in 1..Len(invocations) : FailedAt(n) /\ n < tries})
     IN /\ Len(Warnings) = failedEarly
        /\ Len(Sleeps) = failedEarly
  /\ Len(Errors) = (IF rpc = "raised" /\ AllFailed THEN 1 ELSE 0)
  /\ tries >= 1 => Len(Sleeps) <= tries - 1
  /\ (rpc \in {"returned", "raised"} /\ Len(events) > 0) =>
       events[Len(events)].ev # "sleep"

\* C18 witness: three tries, all failed: two warnings and sleeps, one error.
C18_Witness ==
  /\ tries = 3
  /\ rpc = "raised"
  /\ AllFailed
  /\ Len(Warnings) = 2
  /\ Len(Sleeps) = 2
  /\ events[Len(events)] = ErrorEv

\* C24: run_with_retries called with tries <= 0 never invokes the operation,
\* logs nothing, never sleeps, raises nothing and returns None, the value it
\* also returns for an operation that succeeded with no result.
C24_NoTriesReturnsNone ==
  (tries <= 0 /\ rpc # "idle") =>
    /\ invocations = <<>>
    /\ events = <<>>
    /\ raised = NoExc
    /\ rpc \in {"loop", "returned"}
    /\ rpc = "returned" => result = "None"

\* C24 witness: a negative number of tries, the run has returned.
C24_Witness ==
  /\ tries < 0
  /\ rpc = "returned"
  /\ result = "None"
  /\ invocations = <<>>

\* The wait that preceded the k-th sleep of the run (0 before the first).
PreviousWait(k) == IF k = 1 THEN 0 ELSE Sleeps[k - 1].n

EscapedAt(n) ==
  invocations[n].kind = "exc" /\ invocations[n].exc.cls # "Exception"

\* C26: run_with_retries absorbs only failures of class Exception. A
\* failure outside that class raised on any attempt reaches the caller at
\* once: it is the last invocation, the run has raised that very failure,
\* and nothing was logged or slept after the call (no warning, no error
\* record, no sleep).
C26_OnlyExceptionAbsorbed ==
  /\ \A n \in 1..Len(invocations) :
       EscapedAt(n) =>
         /\ n = Len(invocations)
         /\ rpc = "raised"
         /\ raised = invocations[n].exc
         /\ events[Len(events)] = CallEv(n)
         /\ Len(Warnings) = n - 1
         /\ Len(Sleeps) = n - 1
         /\ Errors = <<>>
  /\ \A n \in 1..(Len(invocations) - 1) : FailedAt(n)

\* C26 witness: one absorbed failure, then a failure outside the class on the
\* second of four tries.
C26_Witness ==
  /\ tries = 4
  /\ Len(invocations) = 2
  /\ FailedAt(1)
  /\ EscapedAt(2)
  /\ rpc = "raised"
  /\ Len(Sleeps) = 1

(***************************************************************************)
(* Properties of the bearers.                                              *)
(***************************************************************************)
\* How many times remove_container was issued for container id.
IsRemovalOf(id, k) == removeCalls[k] = id
Removals(id) == Cardinality({k \in 1..Len(removeCalls) : IsRemovalOf(id, k)})

RunCmdCalls == {n \in 1..Len(calls) : calls[n].op = "run_cmd"}
AddFileCalls == {n \in 1..Len(calls) : calls[n].op = "add_file"}

\* The text a captured stream holds; a stream that gave nothing holds none.
CapturedText(stream) ==
  IF stream.form = "none" THEN EmptyText ELSE stream.data

\* C1: on every way out of a ContainerExecutorBearer scope (normal exit,
\* tolerated command failure, a failure raised by the body, _run_cmd or
\* _add_file) the container created on entry is force-removed exactly once
\* by its recorded identifier: inside the scope exactly that container is
\* live and not yet removed; after the scope no container is live and every
\* container created has had exactly one removal.
C1_ContainerRemovedOnce ==
  variant = "Container" =>
    /\ bpc = "entered" =>
         /\ live = {container}
         /\ Removals(container) = 0
         /\ \A id \in (1..created) \ {container} : Removals(id) = 1
    /\ bpc = "exited" =>
         /\ live = {}
         /\ \A id \in 1..created : Removals(id) = 1
    /\ Len(removeCalls) <= created

\* C1 witness: two scopes were left, one of them by a failure that
\* propagated, and both containers have been removed.
C1_Witness ==
  /\ variant = "Container"
  /\ bpc = "exited"
  /\ created = 2
  /\ removeCalls = <<1, 2>>
  /\ Len(propagated) >= 1
  /\ \E n \in 1..Len(calls) : calls[n].raised

\* C8: for every bearer variant _run_cmd raises if and only if the exit
\* status is nonzero and tolerate_err is false; otherwise it returns the
\* captured (stdout, stderr) and raises nothing.
C8_RunCmdRaisesIffUntolerated ==
  /\ \A n \in RunCmdCalls :
       LET c == calls[n] IN
         /\ c.raised <=> (c.status # 0 /\ ~c.tolerate_err)
         /\ c.raised => c.ret = NoReturn
         /\ ~c.raised =>
              /\ c.ret[1] = CapturedText(c.cap.out)
              /\ c.ret[2] =
                   (IF variant = "Container" THEN CapturedText(c.cap.out)
                    ELSE CapturedText(c.cap.err))
  /\ pending.type = "command" =>
       /\ pending.call = Len(calls)
       /\ calls[pending.call].status # 0
       /\ ~calls[pending.call].tolerate_err
  /\ \A k \in 1..Len(propagated) :
       propagated[k].type = "command" =>
         /\ calls[propagated[k].call].status # 0
         /\ ~calls[propagated[k].call].tolerate_err

\* C8 witness: one bearer saw an untolerated nonzero status raise and the
\* same nonzero status, tolerated, return its output.
C8_Witness ==
  /\ Len(calls) = 2
  /\ calls[1].op = "run_cmd" /\ calls[2].op = "run_cmd"
  /\ calls[1].status = 1 /\ ~calls[1].tolerate_err /\ calls[1].raised
  /\ calls[2].status = 1 /\ calls[2].tolerate_err /\ ~calls[2].raised
  /\ calls[2].ret = <<(<<"outlog">>), (<<"outlog">>)>>
  /\ variant = "Container"

C11_RemoteModeOwnerRW ==
  variant = "Remote" =>
    \A n \in AddFileCalls :
      /\ calls[n].path = <<"/tmp/">> \o calls[n].cmd
      /\ calls[n].mode = 6 * 8 * 8
      /\ (calls[n].mode \div 64) % 8 = 6    \* owner: rw-
      /\ calls[n].mode % 64 = 0             \* group, other: ---
      /\ calls[n].mode \div 512 = 0         \* no setuid, setgid, sticky

\* C13: when a command or staging failure (or one of the body) is in flight
\* inside a ContainerExecutorBearer scope, leaving the scope force-removes
\* the container and hands exactly that failure on to the caller of the
\* scope: release neither swallows nor replaces it; until then the container
\* stays live.
C13_ReleaseThenPropagate ==
  [][(variant = "Container" /\ bpc = "entered" /\ pending # NoFailure) =>
       /\ container \in live
       /\ bpc' = "exited" =>
            /\ removeCalls' = Append(removeCalls, container)
            /\ container \notin live'
            /\ propagated' = Append(propagated, pending)
            /\ pending' = NoFailure]_vars

\* C13 witness: a command failure left a container scope after the release.
C13_Witness ==
  /\ variant = "Container"
  /\ bpc = "exited"
  /\ removeCalls = <<1>>
  /\ live = {}
  /\ propagated = <<Failure("command", 1)>>
  /\ calls[1].raised

\* C15: ContainerExecutorBearer._run_cmd returns a pair (t, t) of two equal
\* texts, t being the decoded merged output of the exec session, and the
\* empty text, never a null value, when the runtime returned no output.
C15_ContainerMergedPair ==
  variant = "Container" =>
    \A n \in RunCmdCalls :
      ~calls[n].raised =>
        /\ Len(calls[n].ret) = 2
        /\ calls[n].ret[1] = calls[n].ret[2]
        /\ calls[n].ret[1] # Null
        /\ calls[n].cap.out.form = "none" => calls[n].ret[1] = EmptyText
        /\ calls[n].cap.out.form = "bytes" =>
             calls[n].ret[1] = calls[n].cap.out.data

\* C15 witness: a command without output returned ("", "") and a command
\* with output returned it twice.
C15_Witness ==
  /\ variant = "Container"
  /\ Len(calls) = 2
  /\ calls[1].op = "run_cmd" /\ calls[1].cap.out = Absent
  /\ calls[1].ret = <<EmptyText, EmptyText>>
  /\ calls[2].op = "run_cmd" /\ calls[2].cap.out = AsBytes(<<"outlog">>)
  /\ calls[2].ret = <<(<<"outlog">>), (<<"outlog">>)>>

(***************************************************************************)
(* Properties of skopeo_login.                                             *)
(***************************************************************************)
\* The username or the password is missing (None) or empty.
CredentialsAbsent ==
  \/ ~username.given \/ username.text = EmptyText
  \/ ~password.given \/ password.text = EmptyText

IsCheckCall(c) ==
  c.op = "run_cmd" /\ c.cmd = cmd_check /\ c.tolerate_err

\* C9 (as stated): when the credentials are absent, the ValueError is raised
\* before any backend call: no _run_cmd and no _add_file has been issued on
\* the bearer at the moment it is raised.
C9_NoBackendCallBeforeValueError ==
  lraised = "ValueError" => Len(calls) = 0

\* C9 (amended): when the credentials are absent, the ValueError is raised
\* after the tolerated get-login check and before any other backend call:
\* with absent credentials the only call ever issued is that check, and at
\* the moment the ValueError is raised exactly that one call has been made.
C9_OnlyCheckBeforeValueError ==
  /\ CredentialsAbsent =>
       /\ Len(calls) <= 1
       /\ \A n \in 1..Len(calls) : IsCheckCall(calls[n])
  /\ lraised = "ValueError" =>
       /\ CredentialsAbsent
       /\ Len(calls) = 1
       /\ IsCheckCall(calls[1])

\* C9 witness: a username without a password, not logged in, ValueError.
C9_Witness ==
  /\ lraised = "ValueError"
  /\ lpc = "raised"
  /\ Truthy(username)
  /\ ~Truthy(password)
  /\ Len(calls) = 1

\* The output of the get-login check, once it has been made.
CheckOut == IF calls[1].raised THEN EmptyText ELSE calls[1].ret[1]

\* skopeo_login has ended, by returning or by raising.
LoginEnded == lpc \in {"returned", "raised"}

\* Called with a username and a password while not already logged in.
LoginProceeds ==
  /\ Len(calls) >= 1
  /\ username.given /\ username.text # EmptyText
  /\ password.given /\ password.text # EmptyText
  /\ ~Contains(username.text, CheckOut)

IsStagingCall(c) ==
  /\ c.op = "add_file"
  /\ c.cmd = <<"skopeo_password.txt">>
  /\ c.data = password.text
  /\ c.path = <<"/tmp/", "skopeo_password.txt">>

\* The login command, reading the file at path.
IsLoginCall(c, path) ==
  /\ c.op = "run_cmd"
  /\ ~c.tolerate_err
  /\ Contains(<<"cat">> \o path, c.cmd)
  /\ Contains(<<"skopeo", "login">>, c.cmd)
  /\ Contains(<<"--password-stdin", "quay.io">>, c.cmd)
  /\ ~Contains(<<"rm">>, c.cmd)

\* The calls issued so far are a prefix of: check, stage, login command.
CheckStageLoginOrder ==
  /\ Len(calls) <= 3
  /\ Len(calls) >= 1 => IsCheckCall(calls[1])
  /\ Len(calls) >= 2 => IsStagingCall(calls[2])
  /\ Len(calls) >= 3 =>
       (~calls[2].raised /\ IsLoginCall(calls[3], calls[2].path))

\* C19 (as stated): called with a username and a password while not already
\* logged in, skopeo_login issues exactly three bearer calls in this order:
\* the tolerated get-login check, add_file staging the password as
\* skopeo_password.txt, the login command reading /tmp/skopeo_password.txt.
C19_ExactlyThreeCalls ==
  (LoginProceeds /\ LoginEnded) =>
    (Len(calls) = 3 /\ CheckStageLoginOrder)

\* C19 (amended): called with a username and a password while not already
\* logged in, skopeo_login issues its bearer calls in this order: the
\* tolerated get-login check, add_file staging the password as
\* skopeo_password.txt, the login command reading /tmp/skopeo_password.txt,
\* the path where add_file staged it; all three unless add_file raises, which
\* ends skopeo_login after two calls. The file is staged before the login
\* command runs and no later call removes it.
C19_CheckStageLogin ==
  LoginProceeds =>
    /\ CheckStageLoginOrder
    /\ lpc \in {"ran", "returned"} => Len(calls) = 3
    /\ LoginEnded =>
         \/ Len(calls) = 3
         \/ Len(calls) = 2 /\ calls[2].raised /\ lraised = "staging"

\* C19 witness: the login command has run after the staging.
C19_Witness ==
  /\ LoginProceeds
  /\ lpc = "returned"
  /\ Len(calls) = 3
  /\ calls[3].cmd = <<"sh", "-c", "cat", "/tmp/", "skopeo_password.txt", "|",
                      "skopeo", "login", "--authfile",
                      "$HOME/.docker/config.json", "-u", "user",
                      "--password-stdin", "quay.io">>

\* C20: skopeo_login returns without staging any file and without issuing
\* the login command whenever a non-empty username occurs in the output of
\* the get-login check, whatever the exit status of the check and whether or
\* not a password was given; the check is then the only bearer call made.
C20_AlreadyLoggedInOnlyChecks ==
  (/\ Len(calls) >= 1
   /\ username.given /\ username.text # EmptyText
   /\ Contains(username.text, CheckOut)) =>
    /\ Len(calls) = 1
    /\ IsCheckCall(calls[1])
    /\ AddFileCalls = {}
    /\ lraised = "none"
    /\ lpc \in {"checked", "returned"}
    /\ lpc = "returned" => llog = <<"Already logged in to Quay.io">>

\* C20 witness: the check failed, no password was given, the output names
\* the user inside a longer name, and skopeo_login returned.
C20_Witness ==
  /\ lpc = "returned"
  /\ Len(calls) = 1
  /\ calls[1].status = 1
  /\ ~password.given
  /\ CheckOut = <<"user", "2">>
  /\ llog = <<"Already logged in to Quay.io">>

\* The login command's call and what it printed.
LoginCmdOut == calls[3].ret[1]
LoginCmdErr == calls[3].ret[2]

\* C21: skopeo_login succeeds only if the stdout of the login command
\* contains "Login Succeeded": once the login command has completed with
\* zero status, skopeo_login returns only with that text in its stdout, and
\* when the text is lacking it ends by raising a RuntimeError whose message
\* carries the captured stdout and stderr.
C21_LoginNeedsSucceededText ==
  (Len(calls) = 3 /\ calls[3].status = 0 /\ LoginEnded) =>
    IF Contains(<<"Login", "Succeeded">>, LoginCmdOut)
      THEN lpc = "returned" /\ lraised = "none"
      ELSE /\ lpc = "raised"
           /\ lraised = "RuntimeError"
           /\ Contains(<<"STDOUT:", "'">> \o LoginCmdOut \o <<"'">>, lmessage)
           /\ Contains(<<"STDERR:", "'">> \o LoginCmdErr \o <<"'">>, lmessage)

\* C21 witness: the login command completed with zero status and printed
\* something else; skopeo_login raised.
C21_Witness ==
  /\ Len(calls) = 3
  /\ calls[3].status = 0
  /\ LoginCmdOut = <<"user">>
  /\ LoginCmdErr = <<"errlog">>
  /\ lpc = "raised"
  /\ lraised = "RuntimeError"

\* C23: when skopeo_login raises the missing-credentials ValueError,
\* exactly one bearer call has been made, the tolerated get-login check; no
\* credential file has been staged, no login command has been issued, and
\* the log line announcing a login has not been written.
C23_ValueErrorLeavesNoTrace ==
  lraised = "ValueError" =>
    /\ lpc = "raised"
    /\ lmessage = CredentialsMessage
    /\ Len(calls) = 1
    /\ calls[1].op = "run_cmd"
    /\ calls[1].cmd = <<"skopeo", "login", "--get-login", "quay.io">>
    /\ calls[1].tolerate_err
    /\ ~calls[1].raised
    /\ AddFileCalls = {}
    /\ \A n \in 1..Len(calls) :
         ~Contains(<<"--password-stdin">>, calls[n].cmd)
    /\ llog = <<>>

\* C23 witness: no username, a password, a failed (tolerated) check.
C23_Witness ==
  /\ lraised = "ValueError"
  /\ ~username.given
  /\ password.given /\ password.text # EmptyText
  /\ Len(calls) = 1
  /\ calls[1].status = 1

(***************************************************************************)
(* Properties of tag_images.                                               *)
(***************************************************************************)

RaisedCalls == {n \in 1..Len(calls) : calls[n].raised}

\* The trace of one attempt over refs in which every copy succeeds, up to
\* but not including the completion line.
RECURSIVE PerDestination(_, _)
PerDestination(refs, attempt) ==
  IF refs = <<>> THEN <<>>
  ELSE <<TagEv("tagging", Head(refs), attempt),
         TagEv("copy", Head(refs), attempt),
         TagEv("tagged", Head(refs), attempt)>>
       \o PerDestination(Tail(refs), attempt)

\* C12: tag_images with one source and n destinations, when no copy fails,
\* issues exactly n run_cmd copy invocations on the bearer, one per
\* destination in list order (the k-th is the copy command of the k-th
\* destination), each followed by that destination's completion log before
\* the next copy starts, and logs overall completion once, after the last
\* destination.
C12_CopiesInOrderThenComplete ==
  (rpc = "returned" /\ RaisedCalls = {}) =>
    /\ Len(calls) = Len(dest_refs)
    /\ \A k \in 1..Len(calls) :
         /\ calls[k].op = "run_cmd"
         /\ calls[k].cmd = cmd_copy(all_arch, source_ref, dest_refs[k])
    /\ tlog = PerDestination(dest_refs, 1)
              \o <<TagEv("complete", EmptyText, 1)>>

C12_Witness ==
  /\ rpc = "returned"
  /\ RaisedCalls = {}
  /\ Len(dest_refs) = 2
  /\ dest_refs[1] # dest_refs[2]
  /\ Len(calls) = 2
  /\ tlog[Len(tlog)].ev = "complete"

\* The position in dest_refs of the destination the n-th copy is for, when
\* every attempt starts over: the first copy is for the first destination, the
\* copy after a failed one is for the first again, the copy after a
\* successful one is for the next.
RECURSIVE DestOf(_)
DestOf(n) ==
  IF n = 1 THEN 1
  ELSE IF calls[n - 1].raised THEN 1
  ELSE DestOf(n - 1) + 1

CopiesOf(k) == {n \in 1..Len(calls) : DestOf(n) = k}

IsComplete(e) == e.ev = "complete"
Completions == SelectSeq(tlog, IsComplete)

\* C22: when a copy fails inside tag_images and tries remain, the whole
\* operation is run again from the first destination, so the destinations
\* already copied in the failed attempt are copied again; over one call the
\* bearer receives at most tries * n copies and a destination at most tries
\* of them; "Tagging complete" is logged at most once, as the last line, by
\* an attempt in which all n copies succeeded.
C22_RerunFromFirstDestination ==
  /\ \A n \in 1..Len(calls) :
       /\ DestOf(n) \in 1..Len(dest_refs)
       /\ calls[n].cmd = cmd_copy(all_arch, source_ref, dest_refs[DestOf(n)])
  /\ d = (IF Len(calls) = 0 THEN 1
          ELSE IF calls[Len(calls)].raised
            THEN (IF rpc = "raised" THEN DestOf(Len(calls)) ELSE 1)
          ELSE DestOf(Len(calls)) + 1)
  /\ Len(calls) <= tries * Len(dest_refs)
  /\ \A k \in 1..Len(dest_refs) : Cardinality(CopiesOf(k)) <= tries
  /\ Cardinality(RaisedCalls) = Len(Sleeps) + (IF rpc = "raised" THEN 1 ELSE 0)
  /\ Len(Completions) <= 1
  /\ Len(Completions) = 1 <=> rpc = "returned"
  /\ rpc = "returned" =>
       /\ tlog[Len(tlog)].ev = "complete"
       /\ Len(calls) >= Len(dest_refs)
       /\ \A k \in 1..Len(dest_refs) :
            LET n == Len(calls) - Len(dest_refs) + k IN
              ~calls[n].raised /\ DestOf(n) = k

\* C22 witness: two destinations, the second copy failed on each of the first
\* three attempts and the fourth attempt succeeded: tries * n copies, the
\* first destination copied tries times, completion logged once.
C22_Witness ==
  /\ rpc = "returned"
  /\ Len(dest_refs) = 2
  /\ Len(calls) = tries * 2
  /\ Cardinality(CopiesOf(1)) = tries
  /\ \A n \in {2, 4, 6} : calls[n].raised
  /\ Len(Completions) = 1

(***************************************************************************)
(* Properties of the command set.                                          *)
(***************************************************************************)

\* The call at index n is the only one of its operation and command.
IssuedOnce(n) ==
  \A m \in 1..Len(calls) :
    (calls[m].op = calls[n].op /\ calls[m].cmd = calls[n].cmd) => m = n

\* C16: retries are opt-in per operation.  In skopeo_login and
\* skopeo_inspect, which the retry wrapper does not wrap, a failing run_cmd
\* or add_file is issued exactly once and is the last call on the bearer:
\* the operation has ended with the failure, nothing slept and nothing was
\* attempted again.  In tag_images, the one wrapped operation, every failed
\* copy with tries remaining is followed by a sleep, and the failure leaves
\* only when all tries are used.
C16_RetriesOptIn ==
  /\ rpc = "idle" =>
       /\ events = <<>>
       /\ invocations = <<>>
       /\ \A n \in RaisedCalls :
            /\ n = Len(calls)
            /\ IssuedOnce(n)
            /\ \/ lpc = "raised" /\ lraised \in {"command", "staging"}
               \/ ipc = "raised" /\ iraised = "command"
  /\ rpc # "idle" =>
       /\ lpc = "idle" /\ ipc = "idle"
       /\ Len(Sleeps) = Min(Cardinality(RaisedCalls), tries - 1)
       /\ rpc = "raised" <=> Cardinality(RaisedCalls) = tries

C16_Witness ==
  /\ lpc = "raised"
  /\ lraised = "command"
  /\ Len(calls) = 3
  /\ calls[3].raised
  /\ IssuedOnce(3)
  /\ events = <<>>

(***************************************************************************)
(* Properties of the retry decorator.                                      *)
(***************************************************************************)

\* What run_with_retries with policy (t, w) logs and sleeps over the
\* outcomes hist of the zero-argument operation, from invocation n on,
\* prev being the wait computed last.
RECURSIVE DirectRun(_, _, _, _, _)
DirectRun(hist, n, prev, t, w) ==
  IF n > Len(hist) THEN <<>>
  ELSE IF hist[n].kind = "ret"
    THEN <<CallEv(n)>> \o SuccessLog(n - 1, t)
  ELSE IF hist[n].exc.cls = "BaseException"
    THEN <<CallEv(n)>>
  ELSE IF ShouldRetry(n - 1, t)
    THEN LET wt == NextWaitTime(n - 1, w, prev) IN
           <<CallEv(n), WarningEv(wt, n, t), SleepEv(wt)>>
           \o DirectRun(hist, n + 1, wt, t, w)
  ELSE <<CallEv(n), ErrorEv>>

\* C17: a call of a function decorated with retry(message, tries,
\* wait_time_increase) behaves like run_with_retries applied, with that
\* policy, to the zero-argument operation that calls the undecorated
\* function with the call's arguments: every attempt receives those same
\* arguments, the invocations, logs and sleeps are the ones the direct run
\* makes over the same outcomes, and the value returned or the exception
\* raised is the direct run's.
C17_DecoratorDelegates ==
  wpc \in {"running", "returned", "raised"} =>
    /\ tries = dtries
    /\ wait_time_increase = dwait
    /\ Len(received) = Len(invocations)
    /\ \A k \in 1..Len(received) : received[k] = wargs
    /\ events = DirectRun(invocations, 1, 0, dtries, dwait)
    /\ wpc = "returned" => (rpc = "returned" /\ wresult = result)
    /\ wpc = "raised" => (rpc = "raised" /\ wraised = raised)

C17_Witness ==
  /\ wpc = "returned"
  /\ wargs = CallArgs(<<"a", "b">>, <<<<"k", "v">>>>)
  /\ dtries = 4
  /\ dwait = 10
  /\ Len(received) = 3
  /\ Len(Sleeps) = 2
  /\ wresult = "Success"

====
